---- MODULE Spec2Model ----
(***************************************************************************)
(* IRT temperature dashboard (graphing_code_dash_v3.py).                   *)
(*                                                                         *)
(* The module-level script loads a spreadsheet of readings, indexes it by  *)
(* TIMESTAMP, masks the -9999 sentinel, resamples the three IRT channels   *)
(* to 5-minute means and then serves two Dash callbacks that redraw a      *)
(* chart (and, on the second tab, a statistical summary) on every change   *)
(* of their dropdown.                                                      *)
(*                                                                         *)
(* Numbers.  A temperature cell is an exact rational [na, num, den] in     *)
(* lowest terms with den > 0, or the missing marker NA (pd.NA / NaN).      *)
(* A standard deviation is carried by its square, the sample variance:     *)
(* it is absent, zero or positive exactly when the deviation is.  A test   *)
(* statistic is carried by what defines it: whether it is nan, its degrees *)
(* of freedom and, for the paired t, its sign and its square.              *)
(*                                                                         *)
(* Timestamps.  All readings are of one day; a TIMESTAMP text              *)
(* 'mm/dd/yyyy HH:MM' is carried by its [hour, minute] and a parsed one by *)
(* the minutes since midnight of that day.                                 *)
(***************************************************************************)
EXTENDS Integers, Sequences, FiniteSets, TLC

VARIABLES
    file,                \* the spreadsheet at file_path (never written)
    pc,                  \* position of the module-level script
    df,                  \* the table read from the spreadsheet
    df_resampled,        \* the 5-minute means of the three channels
    sensor_dropdown,     \* value of the Tab 1 dropdown
    temp_plot,           \* figure shown in Tab 1
    errorbars_dropdown,  \* value of the Tab 2 dropdown
    errorbars_plot,      \* figure shown in Tab 2
    anova_results,       \* text shown under the Tab 2 figure
    errors               \* callbacks answered with an error so far

vars == <<file, pc, df, df_resampled, sensor_dropdown, temp_plot,
          errorbars_dropdown, errorbars_plot, anova_results, errors>>

-----------------------------------------------------------------------------
(* Bounds of the model *)

\* rows of the spreadsheet
NumRows == 6

\* callbacks that may end in an error (SpecFail only)
MaxErrors == 1

-----------------------------------------------------------------------------
(* Program constants *)

\* df.replace(-9999, pd.NA, inplace=True)
Sentinel == -9999

\* resample('5T'): width of a bucket in minutes
BucketMinutes == 5

\* rolling(window=5)
window == 5

\* the three temperature columns, in the order of the dropdown options
Options == <<"TempC_target_1331", "TempC_target_1370", "TempC_target_1376">>

Channels == {Options[i] : i \in 1..Len(Options)}

-----------------------------------------------------------------------------
(* Exact arithmetic on cells *)

Abs(n) == IF n < 0 THEN -n ELSE n

RECURSIVE GCD(_, _)
GCD(a, b) == IF b = 0 THEN a ELSE GCD(b, a % b)

NA == [na |-> TRUE, num |-> 0, den |-> 1]

\* n/d in lowest terms, d > 0
Frac(n, d) ==
    LET g == GCD(Abs(n), d)
    IN  IF n = 0 THEN [na |-> FALSE, num |-> 0, den |-> 1]
        ELSE [na |-> FALSE, num |-> n \div g, den |-> d \div g]

Val(n) == Frac(n, 1)

Add(a, b) == Frac(a.num * b.den + b.num * a.den, a.den * b.den)

Sub(a, b) == Frac(a.num * b.den - b.num * a.den, a.den * b.den)

Mul(a, b) == Frac(a.num * b.num, a.den * b.den)

\* a / n for an integer n > 0
DivInt(a, n) == Frac(a.num, a.den * n)

Less(a, b) == a.num * b.den < b.num * a.den

-----------------------------------------------------------------------------
(* The spreadsheets the model is run on *)

\* Row i (0-based) of the data logger's sheet: one row every 4 minutes from
\* 11:55, so that some 5-minute buckets hold two rows and the others one.
RowMinute(i) == 11 * 60 + 55 + 4 * i

RowText(i) == [hour |-> RowMinute(i) \div 60, minute |-> RowMinute(i) % 60]

RowValue(i, c) ==
    CASE c = Options[1] -> 20 + (i % 3)
      [] c = Options[2] -> IF i % 3 = 1 THEN Sentinel ELSE 22 + i
      [] c = Options[3] -> IF i % 2 = 1 THEN Sentinel ELSE 30 - i

SheetRow(i) ==
    [c \in Channels \cup {"TIMESTAMP"} |->
        IF c = "TIMESTAMP" THEN RowText(i) ELSE Val(RowValue(i, c))]

RECURSIVE RowsOf(_, _)
\* the rows i >= from whose number is in keep, in file order
RowsOf(keep, from) ==
    IF from >= NumRows THEN << >>
    ELSE IF from \in keep THEN <<SheetRow(from)>> \o RowsOf(keep, from + 1)
    ELSE RowsOf(keep, from + 1)

Reverse(s) == [k \in 1..Len(s) |-> s[Len(s) + 1 - k]]

\* every non-empty selection of the logger's rows, oldest first; and, newest
\* first, the complete sheet and the complete sheet less one row
Sheets ==
    LET asc == {RowsOf(keep, 0) : keep \in (SUBSET (0..(NumRows - 1))) \ {{}}}
    IN  asc \cup {Reverse(s) : s \in {a \in asc : Len(a) >= NumRows - 1}}

-----------------------------------------------------------------------------
(* Loader / transformer: lines 10-22 *)

\* pd.read_excel: a RangeIndex and every sheet column as a column
read_excel(sheet) ==
    [k \in 1..Len(sheet) |-> [index |-> k - 1, cols |-> sheet[k]]]

\* pd.to_datetime(text, format='%m/%d/%Y %H:%M')
to_datetime(text) == 60 * text.hour + text.minute

\* df['TIMESTAMP'] = pd.to_datetime(df['TIMESTAMP'], ...)
convert_timestamp(frame) ==
    [k \in 1..Len(frame) |->
        [frame[k] EXCEPT !.cols =
            [@ EXCEPT !["TIMESTAMP"] = to_datetime(@)]]]

\* df.set_index('TIMESTAMP', inplace=True): the column becomes the index
set_index(frame) ==
    [k \in 1..Len(frame) |->
        [index |-> frame[k].cols["TIMESTAMP"],
         cols  |-> [c \in (DOMAIN frame[k].cols) \ {"TIMESTAMP"} |->
                        frame[k].cols[c]]]]

\* (mutant) df.replace(-9999, pd.NA) without inplace=True: df is left as is
replace_not_inplace(frame) == frame

\* df.replace(-9999, pd.NA, inplace=True): every cell of every column
replace(frame) ==
    [k \in 1..Len(frame) |->
        [frame[k] EXCEPT !.cols =
            [c \in DOMAIN @ |-> IF @[c] = Val(Sentinel) THEN NA ELSE @[c]]]]

\* (mutant) buckets labelled by their right edge
BucketOf_right_label(t) == (t \div BucketMinutes) * BucketMinutes + BucketMinutes

\* The left edge of the bucket a timestamp falls in: buckets are closed on
\* the left, labelled by their left edge and aligned to midnight.
BucketOf(t) == (t \div BucketMinutes) * BucketMinutes

\* The resampler orders the rows by their index before binning.
sort_index(frame) == SortSeq(frame, LAMBDA r, s : r.index < s.index)

RECURSIVE group_sum(_, _, _, _)
\* sum of the non-missing cells of column c in the rows k.. of bucket b
group_sum(frame, k, b, c) ==
    IF k > Len(frame) THEN Val(0)
    ELSE IF BucketOf(frame[k].index) = b /\ ~frame[k].cols[c].na
         THEN Add(frame[k].cols[c], group_sum(frame, k + 1, b, c))
         ELSE group_sum(frame, k + 1, b, c)

RECURSIVE group_nobs_all(_, _, _, _)
\* (mutant) the count of a bucket includes its missing cells
group_nobs_all(frame, k, b, c) ==
    IF k > Len(frame) THEN 0
    ELSE IF BucketOf(frame[k].index) = b
         THEN 1 + group_nobs_all(frame, k + 1, b, c)
         ELSE group_nobs_all(frame, k + 1, b, c)

RECURSIVE group_nobs(_, _, _, _)
\* number of the non-missing cells of column c in the rows k.. of bucket b
group_nobs(frame, k, b, c) ==
    IF k > Len(frame) THEN 0
    ELSE IF BucketOf(frame[k].index) = b /\ ~frame[k].cols[c].na
         THEN 1 + group_nobs(frame, k + 1, b, c)
         ELSE group_nobs(frame, k + 1, b, c)

\* mean of a bucket: sum / count of the non-missing cells, NaN without any
group_mean(frame, b, c) ==
    LET n == group_nobs(frame, 1, b, c)
    IN  IF n = 0 THEN NA ELSE DivInt(group_sum(frame, 1, b, c), n)

\* frame[cols].resample('5T').mean(): one row per bucket from the bucket of
\* the first timestamp to the bucket of the last one, empty buckets included
resample_mean(frame, columns) ==
    LET sorted == sort_index(frame)
        first  == BucketOf(sorted[1].index)
        last   == BucketOf(sorted[Len(sorted)].index)
        nbins  == (last - first) \div BucketMinutes + 1
    IN  [k \in 1..nbins |->
            LET b == first + (k - 1) * BucketMinutes
            IN  [index |-> b,
                 cols  |-> [c \in columns |-> group_mean(sorted, b, c)]]]

-----------------------------------------------------------------------------
(* The module-level script, one step per statement *)

NoFigure == [data |-> << >>, title |-> ""]

Init ==
    /\ file \in Sheets
    /\ pc = "read_excel"
    /\ df = << >>
    /\ df_resampled = << >>
    /\ sensor_dropdown = << >>
    /\ temp_plot = NoFigure
    /\ errorbars_dropdown = << >>
    /\ errorbars_plot = NoFigure
    /\ anova_results = << >>
    /\ errors = 0

UI == <<sensor_dropdown, temp_plot, errorbars_dropdown, errorbars_plot,
        anova_results, errors>>

LoadExcel ==
    /\ pc = "read_excel"
    /\ df' = read_excel(file)
    /\ pc' = "to_datetime"
    /\ UNCHANGED <<file, df_resampled, UI>>

ConvertTimestamp ==
    /\ pc = "to_datetime"
    /\ df' = convert_timestamp(df)
    /\ pc' = "set_index"
    /\ UNCHANGED <<file, df_resampled, UI>>

SetIndex ==
    /\ pc = "set_index"
    /\ df' = set_index(df)
    /\ pc' = "replace"
    /\ UNCHANGED <<file, df_resampled, UI>>

ReplaceSentinel ==
    /\ pc = "replace"
    /\ df' = replace(df)
    /\ pc' = "resample"
    /\ UNCHANGED <<file, df_resampled, UI>>

Resample ==
    /\ pc = "resample"
    /\ df_resampled' = resample_mean(df, Channels)
    /\ pc' = "layout"
    /\ UNCHANGED <<file, df, UI>>

-----------------------------------------------------------------------------
(* The layout: lines 28-66 *)

\* value= of dcc.Dropdown(id='sensor-dropdown')
sensor_default == <<Options[1], Options[2], Options[3]>>

\* value= of dcc.Dropdown(id='errorbars-dropdown')
errorbars_default == <<Options[1], Options[2]>>

\* what a multi=True dropdown over the three options can hold: the chosen
\* options, each once, in the order they were chosen
Selections ==
    {s \in UNION {[1..n -> Channels] : n \in 0..Len(Options)} :
        \A i, j \in DOMAIN s : i # j => s[i] # s[j]}

-----------------------------------------------------------------------------
(* Tab 1 callback: lines 73-94 *)

index_of(frame) == [k \in 1..Len(frame) |-> frame[k].index]

column(frame, c) == [k \in 1..Len(frame) |-> frame[k].cols[c]]

\* (mutant) the loop runs over every column instead of the selection
update_temp_plot_all(selected_sensors) ==
    [data  |-> [i \in 1..Len(Options) |->
                   [name |-> Options[i],
                    mode |-> "lines+markers",
                    x    |-> index_of(df_resampled),
                    y    |-> column(df_resampled, Options[i])]],
     title |-> "IRT Temperatures (Every 5 Minutes)"]

update_temp_plot(selected_sensors) ==
    [data  |-> [i \in 1..Len(selected_sensors) |->
                   [name |-> selected_sensors[i],
                    mode |-> "lines+markers",
                    x    |-> index_of(df_resampled),
                    y    |-> column(df_resampled, selected_sensors[i])]],
     title |-> "IRT Temperatures (Every 5 Minutes)"]

-----------------------------------------------------------------------------
(* Tab 2 callback: lines 102-153 *)

RECURSIVE SumSeq(_, _)
SumSeq(s, k) == IF k > Len(s) THEN Val(0) ELSE Add(s[k], SumSeq(s, k + 1))

AnyNA(s) == \E k \in DOMAIN s : s[k].na

mean_of(s) == DivInt(SumSeq(s, 1), Len(s))

\* sample variance (ddof = 1) of a sequence of non-missing values: the
\* square of its .std(); NaN for fewer than two values
var_of(s) ==
    IF Len(s) < 2 THEN NA
    ELSE LET m == mean_of(s)
             d == [k \in 1..Len(s) |-> Mul(Sub(s[k], m), Sub(s[k], m))]
         IN  DivInt(SumSeq(d, 1), Len(s) - 1)

\* (mutant) rolling(window=5, min_periods=1): shorter leading windows and
\* windows with missing values give a value
rolling_std_min_periods_1(series) ==
    [k \in 1..Len(series) |->
        LET lo == IF k < window THEN 1 ELSE k - window + 1
            w  == SelectSeq([j \in 1..(k - lo + 1) |-> series[lo + j - 1]],
                            LAMBDA v : ~v.na)
        IN  var_of(w)]

\* series.rolling(window=5).std(), squared: min_periods defaults to the
\* window, so an entry is NaN until the window is full and whenever one of
\* its five values is missing
rolling_std(series) ==
    [k \in 1..Len(series) |->
        IF k < window THEN NA
        ELSE LET w == [j \in 1..window |-> series[k - window + j]]
             IN  IF AnyNA(w) THEN NA ELSE var_of(w)]

\* scipy.stats.ttest_rel(a, b), nan_policy='propagate': a missing value in
\* either series makes the statistic and the p-value nan.  Else, with d the
\* differences, t = mean(d) / sqrt(var(d) / n) on n - 1 degrees of freedom:
\* carried by its sign and its square, nan for 0/0 or a single pair.
ttest_rel(a, b) ==
    LET n == Len(a)
        d == [k \in 1..n |-> Sub(a[k], b[k])]
    IN  IF AnyNA(a) \/ AnyNA(b) \/ n < 2
        THEN [nan |-> TRUE, n |-> n, sign |-> 0, inf |-> FALSE, sq |-> NA]
        ELSE LET m == mean_of(d)
                 v == var_of(d)
                 sgn == IF m.num > 0 THEN 1 ELSE IF m.num < 0 THEN -1 ELSE 0
             IN  IF v.num = 0
                 THEN [nan |-> sgn = 0, n |-> n, sign |-> sgn,
                       inf |-> sgn # 0, sq |-> NA]
                 ELSE [nan |-> FALSE, n |-> n, sign |-> sgn, inf |-> FALSE,
                       sq  |-> Frac(n * m.num * m.num * v.den,
                                    m.den * m.den * v.num)]

\* the two-sided p-value of the statistic: nan with it, else in [0, 1]
p_value_of(t) == [nan |-> t.nan, df |-> t.n - 1, of |-> <<t.inf, t.sq>>]

\* df_resampled[selected].reset_index().melt(id_vars=['TIMESTAMP'],
\*     var_name='Sensor', value_name='Temperature'): column after column
melt(frame, selected) ==
    [r \in 1..(Len(selected) * Len(frame)) |->
        LET i == ((r - 1) \div Len(frame)) + 1
            k == ((r - 1) % Len(frame)) + 1
        IN  [TIMESTAMP   |-> frame[k].index,
             Sensor      |-> selected[i],
             Temperature |-> frame[k].cols[selected[i]]]]

\* str(AnovaRM(data, depvar, subject, within=[factor]).fit()): one row for
\* the within factor, F on (levels - 1) and (levels - 1)(subjects - 1)
\* degrees of freedom; F is nan when a value is missing or nothing is left
\* for the error term
AnovaRM_fit(data, depvar, subject, factor) ==
    LET levels   == Cardinality({data[r][factor] : r \in DOMAIN data})
        subjects == Cardinality({data[r][subject] : r \in DOMAIN data})
        num_df   == levels - 1
        den_df   == (levels - 1) * (subjects - 1)
        nan      == den_df = 0 \/ \E r \in DOMAIN data : data[r][depvar].na
    IN  [table |-> "Anova",
         rows  |-> <<[term   |-> factor,
                      F      |-> [nan |-> nan],
                      num_df |-> num_df,
                      den_df |-> den_df,
                      p      |-> [nan |-> nan]]>>]

errorbars_figure(selected_sensors) ==
    [data  |-> [i \in 1..Len(selected_sensors) |->
                   [name    |-> selected_sensors[i],
                    mode    |-> "lines+markers",
                    x       |-> index_of(df_resampled),
                    y       |-> column(df_resampled, selected_sensors[i]),
                    error_y |-> rolling_std(
                                   column(df_resampled, selected_sensors[i]))]],
     title |-> "IRT Temperatures with Error Bars (Every 5 Minutes)"]

\* (mutant) the paired test is taken for two or more channels
anova_results_text_two_or_more(selected_sensors) ==
    IF Len(selected_sensors) >= 2
    THEN LET t == ttest_rel(column(df_resampled, selected_sensors[1]),
                            column(df_resampled, selected_sensors[2]))
         IN  <<[text |-> "Paired t-test between",
                a    |-> selected_sensors[1],
                b    |-> selected_sensors[2]],
               [t_stat |-> t, p_value |-> p_value_of(t)]>>
    ELSE << >>

\* anova_results_text: "" is the empty sequence of lines
anova_results_text(selected_sensors) ==
    IF Len(selected_sensors) = 2
    THEN LET t == ttest_rel(column(df_resampled, selected_sensors[1]),
                            column(df_resampled, selected_sensors[2]))
         IN  <<[text |-> "Paired t-test between",
                a    |-> selected_sensors[1],
                b    |-> selected_sensors[2]],
               [t_stat |-> t, p_value |-> p_value_of(t)]>>
    ELSE IF Len(selected_sensors) > 2
    THEN <<AnovaRM_fit(melt(df_resampled, selected_sensors),
                       "Temperature", "TIMESTAMP", "Sensor")>>
    ELSE << >>

update_errorbars_plot(selected_sensors) ==
    <<errorbars_figure(selected_sensors), anova_results_text(selected_sensors)>>

-----------------------------------------------------------------------------
(* Serving *)

Data == <<file, df, df_resampled>>

\* app.layout = ...: the dropdowns hold their defaults, nothing is drawn yet
Layout ==
    /\ pc = "layout"
    /\ sensor_dropdown' = sensor_default
    /\ errorbars_dropdown' = errorbars_default
    /\ pc' = "run_server"
    /\ UNCHANGED <<Data, temp_plot, errorbars_plot, anova_results, errors>>

\* app.run_server and the page load: both callbacks fire once with the
\* values of the layout
RunServer ==
    /\ pc = "run_server"
    /\ temp_plot' = update_temp_plot(sensor_dropdown)
    /\ LET out == update_errorbars_plot(errorbars_dropdown)
       IN  /\ errorbars_plot' = out[1]
           /\ anova_results' = out[2]
    /\ pc' = "serving"
    /\ UNCHANGED <<Data, sensor_dropdown, errorbars_dropdown, errors>>

\* (mutant) the Tab 1 callback also writes the Tab 2 outputs
SensorDropdownChange_both(value) ==
    /\ pc = "serving"
    /\ value # sensor_dropdown
    /\ sensor_dropdown' = value
    /\ temp_plot' = update_temp_plot(value)
    /\ errorbars_plot' = update_temp_plot(value)
    /\ anova_results' = << >>
    /\ UNCHANGED <<file, df, df_resampled, pc, errorbars_dropdown, errors>>

\* the user changes the Tab 1 dropdown
SensorDropdownChange(value) ==
    /\ pc = "serving"
    /\ value # sensor_dropdown
    /\ sensor_dropdown' = value
    /\ temp_plot' = update_temp_plot(value)
    /\ UNCHANGED <<Data, pc, errorbars_dropdown, errorbars_plot,
                   anova_results, errors>>

\* the frame with the missing values of the selected columns set to 0
fillna_selected(frame, selected) ==
    [k \in 1..Len(frame) |->
        [frame[k] EXCEPT !.cols =
            [c \in DOMAIN @ |->
                IF @[c].na /\ \E i \in DOMAIN selected : selected[i] = c
                THEN [na |-> FALSE, num |-> 0, den |-> 1] ELSE @[c]]]]

\* (mutant) the Tab 2 callback fills the selected columns of df_resampled
\* in place before it draws them
ErrorbarsDropdownChange_inplace(value) ==
    /\ pc = "serving"
    /\ value # errorbars_dropdown
    /\ errorbars_dropdown' = value
    /\ df_resampled' = fillna_selected(df_resampled, value)
    /\ errorbars_plot' = [data |-> << >>, title |-> ""]
    /\ anova_results' = << >>
    /\ UNCHANGED <<file, df, pc, sensor_dropdown, temp_plot, errors>>

\* the user changes the Tab 2 dropdown
ErrorbarsDropdownChange(value) ==
    /\ pc = "serving"
    /\ value # errorbars_dropdown
    /\ errorbars_dropdown' = value
    /\ LET out == update_errorbars_plot(value)
       IN  /\ errorbars_plot' = out[1]
           /\ anova_results' = out[2]
    /\ UNCHANGED <<Data, pc, sensor_dropdown, temp_plot, errors>>

\* (mutant) the callback has filled the selected columns of df_resampled in
\* place by the time the statistical routine raises
ErrorbarsCallbackRaises_dirty(value) ==
    /\ pc = "serving"
    /\ errors < MaxErrors
    /\ value # errorbars_dropdown
    /\ Len(value) > 2
    /\ errorbars_dropdown' = value
    /\ errors' = errors + 1
    /\ df_resampled' = fillna_selected(df_resampled, value)
    /\ UNCHANGED <<file, df, pc, sensor_dropdown, temp_plot, errorbars_plot,
                   anova_results>>

\* The repeated-measures routine of the Tab 2 callback (AnovaRM(...).fit())
\* raises: nothing catches it in the callback, which returns no output; the
\* dropdown keeps the value the user gave it and the page what it showed.
ErrorbarsCallbackRaises(value) ==
    /\ pc = "serving"
    /\ errors < MaxErrors
    /\ value # errorbars_dropdown
    /\ Len(value) > 2
    /\ errorbars_dropdown' = value
    /\ errors' = errors + 1
    /\ UNCHANGED <<Data, pc, sensor_dropdown, temp_plot, errorbars_plot,
                   anova_results>>

Next ==
    \/ LoadExcel
    \/ ConvertTimestamp
    \/ SetIndex
    \/ ReplaceSentinel
    \/ Resample
    \/ Layout
    \/ RunServer
    \/ \E value \in Selections : SensorDropdownChange(value)
    \/ \E value \in Selections : ErrorbarsDropdownChange(value)

Spec == Init /\ [][Next]_vars

\* The same program with a statistical routine that may raise, run on the
\* complete sheet.
InitFail ==
    /\ Init
    /\ file = RowsOf(0..(NumRows - 1), 0)

NextFail ==
    \/ Next
    \/ \E value \in Selections : ErrorbarsCallbackRaises(value)

SpecFail == InitFail /\ [][NextFail]_vars

-----------------------------------------------------------------------------
(* Properties *)

Loaded == pc \in {"layout", "run_server", "serving"}

\* the minute of day a sheet row was logged at
RawMinute(j) == 60 * file[j]["TIMESTAMP"].hour + file[j]["TIMESTAMP"].minute

\* the sheet rows of bucket b whose reading of channel c is not the sentinel
ValidReadings(b, c) ==
    {j \in DOMAIN file :
        /\ b <= RawMinute(j)
        /\ RawMinute(j) < b + BucketMinutes
        /\ file[j][c].num # Sentinel}

\* the sheet rows of bucket b whose reading of channel c is the sentinel
SentinelReadings(b, c) ==
    {j \in DOMAIN file :
        /\ b <= RawMinute(j)
        /\ RawMinute(j) < b + BucketMinutes
        /\ file[j][c].num = Sentinel}

RECURSIVE RawSum(_, _)
\* sum of the (integer) readings of channel c in the sheet rows J
RawSum(J, c) ==
    IF J = {} THEN 0
    ELSE LET j == CHOOSE x \in J : TRUE
         IN  file[j][c].num + RawSum(J \ {j}, c)

\* C1: the Tab 2 summary text is chosen by the number of selected channels
\* only: none for 0 or 1, the paired test naming both channels in selection
\* order with a statistic and a p-value for 2, the one-row repeated-measures
\* table of the within factor 'Sensor' over the TIMESTAMP subjects for 3.
C1_SummaryByCount ==
    pc = "serving" =>
        LET s == errorbars_dropdown
            t == anova_results
        IN  /\ Len(s) <= 1 => t = << >>
            /\ Len(s) = 2 =>
                  /\ Len(t) = 2
                  /\ t[1] = [text |-> "Paired t-test between",
                             a |-> s[1], b |-> s[2]]
                  /\ DOMAIN t[2] = {"t_stat", "p_value"}
            /\ Len(s) >= 3 =>
                  /\ Len(t) = 1
                  /\ DOMAIN t[1] = {"table", "rows"}
                  /\ Len(t[1].rows) = 1
                  /\ t[1].rows[1].term = "Sensor"
                  /\ t[1].rows[1].num_df = Len(s) - 1
                  /\ t[1].rows[1].den_df =
                         (Len(s) - 1) * (Len(df_resampled) - 1)

C1_Witness ==
    /\ pc = "serving"
    /\ Len(errorbars_dropdown) = 3
    /\ errorbars_dropdown[1] = Options[2]
    /\ Len(anova_results) = 1
    /\ Len(df_resampled) > 2

\* C2: no resampled value is the sentinel, and no bucket mean counts a
\* -9999 reading: after the replacement the table holds NA exactly where the
\* sheet holds -9999, and a bucket mean is never below every valid reading
\* of its bucket.
C2_SentinelMasked ==
    /\ pc \in {"resample", "layout", "run_server", "serving"} =>
          \A k \in DOMAIN df : \A c \in Channels :
              /\ df[k].cols[c] # Val(Sentinel)
              /\ df[k].cols[c].na <=> (file[k][c].num = Sentinel)
    /\ Loaded =>
          \A k \in DOMAIN df_resampled : \A c \in Channels :
              LET v == df_resampled[k].cols[c]
              IN  /\ v # Val(Sentinel)
                  /\ ~v.na =>
                        \E j \in ValidReadings(df_resampled[k].index, c) :
                            ~Less(v, file[j][c])

C2_Witness ==
    /\ pc = "serving"
    /\ \E k \in DOMAIN df_resampled : \E c \in Channels :
          /\ ~df_resampled[k].cols[c].na
          /\ SentinelReadings(df_resampled[k].index, c) # {}

\* C3: each resampled value is the arithmetic mean of exactly the valid
\* readings of its bucket and is missing when there is none; the index runs
\* from the bucket of the earliest row to the bucket of the latest one in
\* steps of one bucket.
C3_BucketMeans ==
    Loaded =>
        LET lo == CHOOSE j \in DOMAIN file :
                      \A i \in DOMAIN file : RawMinute(j) <= RawMinute(i)
            hi == CHOOSE j \in DOMAIN file :
                      \A i \in DOMAIN file : RawMinute(i) <= RawMinute(j)
            n  == Len(df_resampled)
        IN  /\ n >= 1
            /\ df_resampled[1].index <= RawMinute(lo)
            /\ RawMinute(lo) < df_resampled[1].index + BucketMinutes
            /\ df_resampled[n].index <= RawMinute(hi)
            /\ RawMinute(hi) < df_resampled[n].index + BucketMinutes
            /\ df_resampled[1].index % BucketMinutes = 0
            /\ \A k \in 1..(n - 1) :
                  df_resampled[k + 1].index =
                      df_resampled[k].index + BucketMinutes
            /\ \A k \in 1..n : \A c \in Channels :
                  LET J == ValidReadings(df_resampled[k].index, c)
                      v == df_resampled[k].cols[c]
                  IN  IF J = {} THEN v.na
                      ELSE /\ ~v.na
                           /\ v.num * Cardinality(J) = v.den * RawSum(J, c)

C3_Witness ==
    /\ pc = "serving"
    /\ \E k \in DOMAIN df_resampled :
          /\ Cardinality(ValidReadings(df_resampled[k].index, Options[1])) = 2
          /\ df_resampled[k].cols[Options[1]].den = 2
    /\ \E k \in DOMAIN df_resampled : \A c \in Channels :
          /\ df_resampled[k].cols[c].na
          /\ SentinelReadings(df_resampled[k].index, c) = {}
    /\ \E k \in DOMAIN df_resampled : \E c \in Channels :
          /\ df_resampled[k].cols[c].na
          /\ SentinelReadings(df_resampled[k].index, c) # {}

\* C4: both charts hold one series per selected channel, named after it and
\* drawing its column, in selection order, and none for another channel; an
\* empty selection gives a chart without series and, in Tab 2, no text.
C4_OneSeriesPerSelection ==
    pc = "serving" =>
        /\ Len(temp_plot.data) = Len(sensor_dropdown)
        /\ \A i \in DOMAIN sensor_dropdown :
              /\ temp_plot.data[i].name = sensor_dropdown[i]
              /\ temp_plot.data[i].y =
                     column(df_resampled, sensor_dropdown[i])
        /\ Len(errorbars_plot.data) = Len(errorbars_dropdown)
        /\ \A i \in DOMAIN errorbars_dropdown :
              /\ errorbars_plot.data[i].name = errorbars_dropdown[i]
              /\ errorbars_plot.data[i].y =
                     column(df_resampled, errorbars_dropdown[i])
        /\ errorbars_dropdown = << >> => anova_results = << >>

C4_Witness ==
    /\ pc = "serving"
    /\ sensor_dropdown = << >>
    /\ temp_plot.data = << >>
    /\ errorbars_dropdown = << >>
    /\ errorbars_plot.data = << >>
    /\ anova_results = << >>

-----------------------------------------------------------------------------
(* Rolling error bars *)

\* the values of buckets i-4..i (0-based i) of a resampled column
Window(series, i) == [j \in 1..window |-> series[i + 1 - window + j]]

Present(s) == {k \in DOMAIN s : ~s[k].na}

RECURSIVE SumOver(_, _)
SumOver(s, K) ==
    IF K = {} THEN Val(0)
    ELSE LET k == CHOOSE x \in K : TRUE
         IN  Add(s[k], SumOver(s, K \ {k}))

\* whether v is the sample variance of the values of s at the places K:
\* n (n - 1) v = n * sum of squares - square of the sum
IsVarianceOf(v, s, K) ==
    LET n  == Cardinality(K)
        sq == [k \in DOMAIN s |-> Mul(s[k], s[k])]
        t  == SumOver(s, K)
    IN  /\ n >= 2
        /\ ~v.na
        /\ Mul(Val(n * (n - 1)), v) =
               Sub(Mul(Val(n), SumOver(sq, K)), Mul(t, t))

-----------------------------------------------------------------------------
(* Paired test *)

RECURSIVE Complete(_, _, _)
\* the values of a at the places k.. where neither a nor b is missing
Complete(a, b, k) ==
    IF k > Len(a) THEN << >>
    ELSE IF ~a[k].na /\ ~b[k].na
         THEN <<a[k]>> \o Complete(a, b, k + 1)
         ELSE Complete(a, b, k + 1)

\* C6: with two channels selected, the paired test is computed over the
\* buckets that have a value in both channels: a bucket missing on either
\* side only reduces the sample, and the reported statistic and p-value are
\* those of the remaining pairs.
C6_PairwiseComplete ==
    (pc = "serving" /\ Len(errorbars_dropdown) = 2) =>
        LET a == column(df_resampled, errorbars_dropdown[1])
            b == column(df_resampled, errorbars_dropdown[2])
            t == ttest_rel(Complete(a, b, 1), Complete(b, a, 1))
        IN  Len(Complete(a, b, 1)) >= 2 =>
                /\ Len(anova_results) = 2
                /\ anova_results[2].t_stat = t
                /\ anova_results[2].p_value = p_value_of(t)

-----------------------------------------------------------------------------
(* Idempotence, read-only state, independent views *)

\* C7: resampling the resampled series again returns it unchanged: the same
\* buckets, values and missing buckets.
C7_Idempotent ==
    Loaded => resample_mean(df_resampled, Channels) = df_resampled

C7_Witness ==
    /\ pc = "serving"
    /\ Len(df_resampled) >= 3
    /\ \E k \in DOMAIN df_resampled : df_resampled[k].cols[Options[1]].den = 2
    /\ \E k \in DOMAIN df_resampled : df_resampled[k].cols[Options[1]].na

\* the table and the resampled series as the script computes them from the
\* sheet
FreshTable == replace(set_index(convert_timestamp(read_excel(file))))

FreshResampled == resample_mean(FreshTable, Channels)

\* C8: while serving, the table and the resampled series are the ones
\* computed at startup whatever events were handled, and each view shows
\* what its callback returns for its current selection.
C8_ReadOnlyData ==
    pc = "serving" =>
        /\ df = FreshTable
        /\ df_resampled = FreshResampled
        /\ temp_plot = update_temp_plot(sensor_dropdown)
        /\ <<errorbars_plot, anova_results>> =
               update_errorbars_plot(errorbars_dropdown)

C8_Witness ==
    /\ pc = "serving"
    /\ sensor_dropdown = <<Options[2]>>
    /\ errorbars_dropdown = <<Options[3], Options[2], Options[1]>>
    /\ \E k \in DOMAIN df_resampled : df_resampled[k].cols[Options[3]].na

\* C9: a Tab 2 callback that raises changes neither the table nor the
\* resampled series nor what either view shows, the program keeps serving,
\* and every later change of either dropdown is rendered as its callback
\* returns it for the new selection.
C9_FailureIsolated ==
    [][pc = "serving" =>
          /\ pc' = "serving"
          /\ Data' = Data
          /\ errors' # errors =>
                /\ temp_plot' = temp_plot
                /\ errorbars_plot' = errorbars_plot
                /\ anova_results' = anova_results
          /\ (errors' = errors /\ errorbars_dropdown' # errorbars_dropdown) =>
                <<errorbars_plot', anova_results'>> =
                    update_errorbars_plot(errorbars_dropdown')
          /\ sensor_dropdown' # sensor_dropdown =>
                temp_plot' = update_temp_plot(sensor_dropdown')
      ]_vars

C9_Witness ==
    /\ pc = "serving"
    /\ errors >= 1
    /\ Len(errorbars_dropdown) = 3
    /\ <<errorbars_plot, anova_results>> =
           update_errorbars_plot(errorbars_dropdown)
    /\ sensor_dropdown # sensor_default
    /\ temp_plot = update_temp_plot(sensor_dropdown)

\* C10: a change of the Tab 1 dropdown redraws the Tab 1 chart and leaves
\* the Tab 2 chart and text as they were, and a change of the Tab 2 dropdown
\* redraws the Tab 2 chart and text and leaves the Tab 1 chart; the first
\* render shows all three channels in Tab 1 and the first two channels with
\* their paired test in Tab 2.
C10_IndependentViews ==
    [][/\ (pc = "serving" /\ sensor_dropdown' # sensor_dropdown) =>
             /\ temp_plot' = update_temp_plot(sensor_dropdown')
             /\ temp_plot' # temp_plot
             /\ errorbars_dropdown' = errorbars_dropdown
             /\ errorbars_plot' = errorbars_plot
             /\ anova_results' = anova_results
       /\ (pc = "serving" /\ errorbars_dropdown' # errorbars_dropdown) =>
             /\ <<errorbars_plot', anova_results'>> =
                    update_errorbars_plot(errorbars_dropdown')
             /\ sensor_dropdown' = sensor_dropdown
             /\ temp_plot' = temp_plot
       /\ (pc = "run_server" /\ pc' = "serving") =>
             /\ [i \in DOMAIN temp_plot'.data |-> temp_plot'.data[i].name]
                    = <<Options[1], Options[2], Options[3]>>
             /\ [i \in DOMAIN errorbars_plot'.data |->
                    errorbars_plot'.data[i].name] = <<Options[1], Options[2]>>
             /\ Len(anova_results') = 2
             /\ anova_results'[1] = [text |-> "Paired t-test between",
                                     a |-> Options[1], b |-> Options[2]]
      ]_vars

C10_Witness ==
    /\ pc = "serving"
    /\ sensor_dropdown = <<Options[3]>>
    /\ [i \in DOMAIN temp_plot.data |-> temp_plot.data[i].name]
           = <<Options[3]>>
    /\ errorbars_dropdown = errorbars_default
    /\ Len(anova_results) = 2

====
